---- MODULE Spec2Model ----
(***************************************************************************)
(* Model of the sensor sample store of pi-home-utils (src/db/db.c, db.h):  *)
(* one SQLite file with the table SensorData, opened by handles in the     *)
(* Producer or the Consumer mode, written by sensors_db_store_data (insert *)
(* followed by the retention trim) and read by sensors_db_read_latest and  *)
(* sensors_db_read_n.                                                      *)
(*                                                                         *)
(* The SQLite engine is modelled by what its documented interface does:    *)
(* AUTOINCREMENT rowids, ORDER BY id DESC LIMIT n (a negative LIMIT is no  *)
(* limit), CREATE TABLE IF NOT EXISTS, statement-level atomicity, and      *)
(* sqlite3_finalize returning the error of the most recent evaluation.     *)
(* Every engine call that returns a result code may fail; the failure is   *)
(* an input of the action (a record f of booleans and a step index).       *)
(*                                                                         *)
(* Three specifications share the actions: Spec is one caller running      *)
(* every function to completion on a store it created; SpecConc is a       *)
(* Producer process and a Consumer process, the Consumer reading between   *)
(* the INSERT and the trim of a store; SpecForeign is a Consumer on a      *)
(* store file whose rows were written by another program.                  *)
(***************************************************************************)
EXTENDS Integers, Sequences, FiniteSets, TLC

VARIABLES
    fileExists,   \* the store file exists on disk (access(db_file, F_OK) == 0)
    hasTable,     \* the file holds the table SensorData
    rows,         \* the rows of SensorData
    seq,          \* sqlite_sequence of SensorData: the greatest id ever assigned
    handle,       \* the callers' sensors_db_t pointers, one per slot
    conns,        \* the sqlite3 connections currently open
    stored,       \* history: the id and readings of each successful store, in order
    run,          \* history: the retention regime of the successful stores
    last,         \* the last call: its arguments, its result, the state before it
    pc,           \* per slot: the caller's position inside sensors_db_store_data
    stmts         \* per connection: the statements prepared and not yet finalized

vars == <<fileExists, hasTable, rows, seq, handle, conns, stored, run, last, pc, stmts>>

-----------------------------------------------------------------------------
(* Bounds of the model *)

MaxId == 3          \* stores are explored until this id has been assigned
MaxLimit == 2       \* data_limit ranges over -1 .. MaxLimit
MaxStepFault == 2   \* the sqlite3_step calls of one statement that may fail
MaxTextLen == 33    \* the longest timestamp text of a store written elsewhere

(* Program constants *)

SENSORS_DB_PRODUCER == 0
SENSORS_DB_CONSUMER == 1
SQLITE_OK == 0
SQLITE_ERROR == 1
SQLITE_ROW == 100
SQLITE_DONE == 101
TimestampSize == 32     \* sizeof(out->timestamp)
TimestampLen == 19      \* "YYYY-MM-DD HH:MM:SS", the text CURRENT_TIMESTAMP yields
DoubleUlpsPerFloat == 4 \* doubles between two neighbouring floats, in the model

\* The callers' slots: each is a process with at most one handle.
Handles == {1, 2}
Modes == {SENSORS_DB_PRODUCER, SENSORS_DB_CONSUMER}
Limits == -1 .. MaxLimit
MaxSamples == -1 .. MaxId

\* The float readings a caller passes to store: (bmp280_temp, bmp280_pressure,
\* htu21d_temp, htu21d_humidity).
Readings == { <<1, 2, 3, 4>>, <<5, 6, 7, 8>> }

-----------------------------------------------------------------------------
(* Helpers *)

Max(a, b) == IF a >= b THEN a ELSE b
Min(a, b) == IF a <= b THEN a ELSE b

SetMax(S) == CHOOSE x \in S : \A y \in S : y <= x

Ids(R) == { r.id : r \in R }

\* sqlite3_column_int keeps the low 32 bits of the 64-bit column value: the
\* value itself for every id below 2^31, which covers every id of the model.
sqlite3_column_int(x) == x

\* float -> double (the argument promotion of sqlite3_bind_double) is exact: a
\* float is the index of a double that is a multiple of DoubleUlpsPerFloat.
FloatToDouble(x) == x * DoubleUlpsPerFloat

\* double -> float (the assignment of sqlite3_column_double to a float field)
\* rounds to the nearest float.
DoubleToFloat(d) == (2 * d + DoubleUlpsPerFloat) \div (2 * DoubleUlpsPerFloat)

\* A text is modelled by its length in characters. The text of the column
\* default CURRENT_TIMESTAMP:
CurrentTimestamp == TimestampLen

\* strncpy(dst, src, n) into a buffer of n bytes: the first n characters of
\* src are copied, and NUL bytes fill the rest when src is shorter than n, so
\* the buffer holds a terminator exactly when src is shorter than n.
strncpy(src, n) == [copied |-> Min(src, n), terminated |-> src < n]

-----------------------------------------------------------------------------
(* The SQLite engine, as far as db.c uses it *)

IsError(rc) == rc \notin {SQLITE_OK, SQLITE_ROW, SQLITE_DONE}

\* Faulty variant: the existence check always passes
accessAlwaysPasses(exists) == 0

\* access(db_file, F_OK): 0 when the file exists, -1 otherwise.
access(exists) == IF exists THEN 0 ELSE -1

\* sqlite3_open_v2(db_file, &db, flags, NULL): the file is created only under
\* SQLITE_OPEN_CREATE; a missing file without it cannot be opened.
sqlite3_open_v2(exists, flags, fault) ==
    IF fault \/ (~exists /\ "CREATE" \notin flags)
    THEN [rc |-> SQLITE_ERROR, exists |-> exists]
    ELSE [rc |-> SQLITE_OK, exists |-> TRUE]

ConsumerFlags == {"READONLY"}
ProducerFlags == {"READWRITE", "CREATE"}

\* Faulty variant: CREATE TABLE without IF NOT EXISTS: an error when the table exists
CreateTableSqlWithoutIfNotExists(table, R, fault) ==
    IF fault \/ table THEN [rc |-> SQLITE_ERROR, table |-> table, rows |-> R]
    ELSE [rc |-> SQLITE_OK, table |-> TRUE, rows |-> {}]

\* sqlite3_exec(db, CREATE_TABLE_SQL, ...): CREATE TABLE IF NOT EXISTS creates
\* an empty table when there is none and is a no-op otherwise.
CreateTableSql(table, R, fault) ==
    IF fault THEN [rc |-> SQLITE_ERROR, table |-> table, rows |-> R]
    ELSE [rc |-> SQLITE_OK, table |-> TRUE, rows |-> IF table THEN R ELSE {}]

\* Faulty variant: the id taken from the number of rows held
NextIdFromRowCount(sq, R) == Cardinality(R) + 1

\* id INTEGER PRIMARY KEY AUTOINCREMENT: one more than the greatest id the
\* table has ever held (sqlite_sequence), also after that row was deleted.
NextId(sq, R) == Max(sq, IF R = {} THEN 0 ELSE SetMax(Ids(R))) + 1

\* Faulty variant: the first two measurements bound to each other's parameter
InsertSqlSwappedBinds(R, id, m) ==
    R \cup { [ id |-> id,
               timestamp |-> CurrentTimestamp,
               bmp280_temperature |-> FloatToDouble(m[2]),
               bmp280_pressure |-> FloatToDouble(m[1]),
               htu21d_temperature |-> FloatToDouble(m[3]),
               htu21d_humidity |-> FloatToDouble(m[4]) ] }

\* INSERT INTO SensorData (four measurements) VALUES (?, ?, ?, ?): id and
\* timestamp take their column defaults, the floats are bound as doubles.
InsertSql(R, id, m) ==
    R \cup { [ id |-> id,
               timestamp |-> CurrentTimestamp,
               bmp280_temperature |-> FloatToDouble(m[1]),
               bmp280_pressure |-> FloatToDouble(m[2]),
               htu21d_temperature |-> FloatToDouble(m[3]),
               htu21d_humidity |-> FloatToDouble(m[4]) ] }

\* ... ORDER BY id DESC
RECURSIVE OrderByIdDesc(_)
OrderByIdDesc(R) ==
    IF R = {} THEN << >>
    ELSE LET r == CHOOSE x \in R : \A y \in R : y.id <= x.id
         IN  <<r>> \o OrderByIdDesc(R \ {r})

\* Faulty variant: LIMIT n yields one row more than n
LimitOneMore(s, n) == IF n < 0 THEN s ELSE SubSeq(s, 1, Min(n + 1, Len(s)))

\* ... LIMIT n: the first n rows; a negative n is no limit.
Limit(s, n) == IF n < 0 THEN s ELSE SubSeq(s, 1, Min(n, Len(s)))

\* Faulty variant: the same in ascending id order
RECURSIVE OrderByIdAsc(_)
OrderByIdAsc(R) ==
    IF R = {} THEN << >>
    ELSE LET r == CHOOSE x \in R : \A y \in R : x.id <= y.id
         IN  <<r>> \o OrderByIdAsc(R \ {r})

SelectSqlAscending(R, n) == Limit(OrderByIdAsc(R), n)

\* SELECT ... FROM SensorData ORDER BY id DESC LIMIT n
SelectSql(R, n) == Limit(OrderByIdDesc(R), n)

\* Faulty variant: the trim keeps one row more than data_limit
TrimSqlOffByOne(R, data_limit) ==
    LET keep == SelectSql(R, data_limit + 1)
    IN  { r \in R : \E i \in DOMAIN keep : keep[i].id = r.id }

\* DELETE FROM SensorData WHERE id NOT IN
\*   (SELECT id FROM SensorData ORDER BY id DESC LIMIT data_limit)
TrimSql(R, data_limit) ==
    LET keep == SelectSql(R, data_limit)
    IN  { r \in R : \E i \in DOMAIN keep : keep[i].id = r.id }

\* The k-th sqlite3_step of a SELECT whose result is q, the stepAt-th call
\* failing (stepAt = 0: none fails).
sqlite3_step(q, k, stepAt) ==
    IF stepAt = k THEN SQLITE_ERROR
    ELSE IF k <= Len(q) THEN SQLITE_ROW
    ELSE SQLITE_DONE

\* Faulty variant: the error of the evaluation is not reported
sqlite3_finalizeAlwaysOk(rc) == SQLITE_OK

\* sqlite3_finalize(stmt): the error code of the most recent evaluation, or
\* SQLITE_OK when it met no error.
sqlite3_finalize(rc) == IF IsError(rc) THEN rc ELSE SQLITE_OK

\* The sqlite3_column_* reads of one result row into a sensors_sample_t.
ReadColumns(r) ==
    [ id |-> sqlite3_column_int(r.id),
      timestamp |-> strncpy(r.timestamp, TimestampSize),
      bmp280_temperature |-> DoubleToFloat(r.bmp280_temperature),
      bmp280_pressure |-> DoubleToFloat(r.bmp280_pressure),
      htu21d_temperature |-> DoubleToFloat(r.htu21d_temperature),
      htu21d_humidity |-> DoubleToFloat(r.htu21d_humidity) ]

-----------------------------------------------------------------------------
(* State *)

NullHandle == [alloc |-> FALSE, mode |-> SENSORS_DB_PRODUCER, data_limit |-> 0, db |-> 0]

\* The engine calls of one handler that fail (stepAt: the sqlite3_step call).
NoFault == [open |-> FALSE, exec |-> FALSE, prepare |-> FALSE, stepAt |-> 0, trim |-> FALSE]

\* The regime of the successful stores so far: none yet ("empty"), all under a
\* data_limit <= 0 ("unlimited"), all under the same data_limit > 0 with the
\* trim executed each time ("limited"), all under the same data_limit > 0
\* with a trim that failed ("untrimmed"), or anything else ("mixed").
NoRun == [kind |-> "empty", data_limit |-> 0]

StoreRun(data_limit, trim) ==
    IF data_limit <= 0 THEN [kind |-> "unlimited", data_limit |-> 0]
    ELSE IF trim = "ok" THEN [kind |-> "limited", data_limit |-> data_limit]
    ELSE [kind |-> "untrimmed", data_limit |-> data_limit]

\* The regime after one more successful store.
NextRun(r, data_limit, trim) ==
    IF r.kind = "empty" \/ r = StoreRun(data_limit, trim)
    THEN StoreRun(data_limit, trim)
    ELSE IF r.kind \in {"limited", "untrimmed"} /\ data_limit = r.data_limit
    THEN [kind |-> "untrimmed", data_limit |-> data_limit]
    ELSE [kind |-> "mixed", data_limit |-> 0]

\* A caller that is not inside sensors_db_store_data.
Idle == [at |-> "idle"]

NoCall ==
    [ op |-> "none", h |-> 0, mode |-> SENSORS_DB_PRODUCER, data_limit |-> 0,
      reading |-> << >>, max_samples |-> 0,
      failed |-> "none", ret |-> 0, err |-> "", out |-> << >>,
      prepared |-> 0, finalized |-> 0,
      rowsBefore |-> {}, seqBefore |-> 0, fileBefore |-> FALSE,
      tableBefore |-> FALSE, connsBefore |-> {} ]

\* The record of a call made in the current state.
Call(op, h, mode, data_limit) ==
    [ NoCall EXCEPT !.op = op, !.h = h, !.mode = mode, !.data_limit = data_limit,
                    !.rowsBefore = rows, !.seqBefore = seq,
                    !.fileBefore = fileExists, !.tableBefore = hasTable,
                    !.connsBefore = conns ]

Init ==
    /\ fileExists = FALSE
    /\ hasTable = FALSE
    /\ rows = {}
    /\ seq = 0
    /\ handle = [h \in Handles |-> NullHandle]
    /\ conns = {}
    /\ stored = << >>
    /\ run = NoRun
    /\ last = NoCall
    /\ pc = [h \in Handles |-> Idle]
    /\ stmts = [h \in Handles |-> 0]

-----------------------------------------------------------------------------
(* sensors_db_open *)

\* Faulty variant: the error exit frees the handle and leaves the connection
error_dbWithoutClose(cs, c) == cs

\* The error_db exit: sqlite3_close(db->db), free(db), return NULL.
error_db(cs, c) == cs \ {c}

\* The result of sensors_db_open(db_file, mode, data_limit), the connection
\* it opens being c (each caller slot has its own): the handle returned
\* (NullHandle for NULL), the file and the table afterwards, the open
\* connections, the stderr line.
sensors_db_open(c, mode, data_limit, f) ==
    LET db == [alloc |-> TRUE, mode |-> mode, data_limit |-> data_limit, db |-> c]
        here == [ handle |-> NullHandle, exists |-> fileExists, table |-> hasTable,
                  rows |-> rows, conns |-> conns, err |-> "", failed |-> "none" ]
    IN
    IF mode = SENSORS_DB_CONSUMER THEN
        IF access(fileExists) # 0 THEN
            \* db->db is still NULL: sqlite3_close(NULL) is a no-op
            [ here EXCEPT !.err = "Database does not exist", !.conns = error_db(conns, c) ]
        ELSE
            LET o == sqlite3_open_v2(fileExists, ConsumerFlags, f.open)
            IN  IF o.rc # SQLITE_OK THEN
                    [ here EXCEPT !.err = "Cannot open DB",
                                  !.failed = IF f.open THEN "open" ELSE "none",
                                  !.exists = o.exists,
                                  !.conns = error_db(conns \cup {c}, c) ]
                ELSE
                    [ here EXCEPT !.handle = db, !.exists = o.exists,
                                  !.conns = conns \cup {c} ]
    ELSE
        LET o == sqlite3_open_v2(fileExists, ProducerFlags, f.open)
        IN  IF o.rc # SQLITE_OK THEN
                [ here EXCEPT !.err = "Cannot open DB",
                              !.failed = IF f.open THEN "open" ELSE "none",
                              !.exists = o.exists,
                              !.conns = error_db(conns \cup {c}, c) ]
            ELSE
                LET e == CreateTableSql(hasTable, rows, f.exec)
                IN  IF e.rc # SQLITE_OK THEN
                        [ here EXCEPT !.err = "SQL error",
                                      !.failed = IF f.exec THEN "exec" ELSE "none",
                                      !.exists = o.exists, !.table = e.table,
                                      !.rows = e.rows,
                                      !.conns = error_db(conns \cup {c}, c) ]
                    ELSE
                        [ here EXCEPT !.handle = db, !.exists = o.exists,
                                      !.table = e.table, !.rows = e.rows,
                                      !.conns = conns \cup {c} ]

OpenFaults ==
    { NoFault, [NoFault EXCEPT !.open = TRUE], [NoFault EXCEPT !.exec = TRUE] }

Open(h, mode, data_limit, f) ==
    /\ pc[h] = Idle
    /\ ~handle[h].alloc
    /\ \E r \in { sensors_db_open(h, mode, data_limit, f) } :
           /\ fileExists' = r.exists
           /\ hasTable' = r.table
           /\ rows' = r.rows
           /\ conns' = r.conns
           /\ handle' = [handle EXCEPT ![h] = r.handle]
           /\ last' = [ Call("open", h, mode, data_limit) EXCEPT
                          !.ret = IF r.handle.alloc THEN 1 ELSE 0,
                          !.err = r.err, !.failed = r.failed ]
    /\ UNCHANGED <<seq, stored, run, pc, stmts>>

-----------------------------------------------------------------------------
(* sensors_db_close *)

\* sqlite3_close(db): the connection is released unless it still has
\* statements that were not finalized (SQLITE_BUSY, the connection stays open).
sqlite3_close(cs, c) == IF stmts[c] = 0 THEN cs \ {c} ELSE cs

Close(h) ==
    /\ pc[h] = Idle
    /\ IF ~handle[h].alloc
       THEN UNCHANGED <<handle, conns>>          \* if (!self) return;
       ELSE /\ conns' = sqlite3_close(conns, handle[h].db)
            /\ handle' = [handle EXCEPT ![h] = NullHandle]   \* free(self)
    /\ last' = Call("close", h, handle[h].mode, handle[h].data_limit)
    /\ UNCHANGED <<fileExists, hasTable, rows, seq, stored, run, pc, stmts>>

-----------------------------------------------------------------------------
(* sensors_db_store_data *)

\* Faulty variant: sensors_db_read_latest returns on an empty table without finalizing
FinalizeCallsNoneOnNoRow(op, path) ==
    IF path \in {"role", "prepare"} \/ (op = "read_latest" /\ path = "no_row")
    THEN 0 ELSE 1

\* The sqlite3_finalize calls that the handler op makes on its return path:
\* none on the returns that precede a prepared statement (the role check of
\* line 77, the failed prepare of lines 92, 132, 160), one on every other
\* (lines 104, 136, 148, 179).
FinalizeCalls(op, path) == IF path \in {"role", "prepare"} THEN 0 ELSE 1

\* The statement compiles when the engine does not fail and the table exists.
sqlite3_prepare_v2(table, fault) == IF fault \/ ~table THEN SQLITE_ERROR ELSE SQLITE_OK

\* Faulty variant: a failed trim takes the rows of the table with it
TrimLosingRowsOnFailure(R, data_limit, fault) ==
    IF data_limit > 0
    THEN IF fault THEN [rows |-> {}, trim |-> "failed"]
                  ELSE [rows |-> TrimSql(R, data_limit), trim |-> "ok"]
    ELSE [rows |-> R, trim |-> "none"]

\* The retention trim of lines 109-118: run only under data_limit > 0, its
\* result ignored; a failed DELETE changes nothing.
Trim(R, data_limit, fault) ==
    IF data_limit > 0
    THEN IF fault THEN [rows |-> R, trim |-> "failed"]
                  ELSE [rows |-> TrimSql(R, data_limit), trim |-> "ok"]
    ELSE [rows |-> R, trim |-> "none"]

\* Faulty variant: no role check
StoreAllowedForAll(self) == TRUE

\* The role check of lines 75-78.
StoreAllowed(self) == self.mode = SENSORS_DB_PRODUCER

\* sqlite3_step of the INSERT: it fails when the engine fails, and always on
\* the read-only connection of a Consumer handle.
StepInsert(self, fault) ==
    IF fault \/ self.mode = SENSORS_DB_CONSUMER THEN SQLITE_ERROR ELSE SQLITE_DONE

\* The result of sensors_db_store_data(self, m[1], m[2], m[3], m[4]).
sensors_db_store_data(self, m, f) ==
    LET here == [ ret |-> -1, rows |-> rows, seq |-> seq, err |-> "",
                  failed |-> "none", trim |-> "none", id |-> 0,
                  prepared |-> 0, finalized |-> 0 ]
        done == [ here EXCEPT !.prepared = 1,
                              !.finalized = FinalizeCalls("store", "stepped") ]
    IN
    IF ~StoreAllowed(self) THEN
        [ here EXCEPT !.err = "DB is read-only",
                      !.finalized = FinalizeCalls("store", "role") ]
    ELSE IF sqlite3_prepare_v2(hasTable, f.prepare) # SQLITE_OK THEN
        [ here EXCEPT !.failed = IF f.prepare THEN "prepare" ELSE "none",
                      !.finalized = FinalizeCalls("store", "prepare") ]
    ELSE
        LET step == StepInsert(self, f.stepAt = 1)     \* result not looked at
            id == NextId(seq, rows)
            \* the INSERT takes effect when its step completes, and not at all otherwise
            inserted == IF step = SQLITE_DONE THEN InsertSql(rows, id, m) ELSE rows
            assigned == IF step = SQLITE_DONE THEN id ELSE seq
            rc == sqlite3_finalize(step)
            stepFault == IF IsError(step) /\ f.stepAt = 1 THEN "step" ELSE "none"
        IN  IF rc # SQLITE_OK THEN
                [ done EXCEPT !.rows = inserted, !.seq = assigned, !.failed = stepFault ]
            ELSE
                LET t == Trim(inserted, self.data_limit, f.trim)
                IN  [ done EXCEPT !.ret = 0, !.rows = t.rows, !.seq = assigned, !.id = id,
                                  !.trim = t.trim,
                                  !.failed = IF t.trim = "failed" THEN "trim"
                                             ELSE stepFault ]

StoreFaults ==
    { NoFault, [NoFault EXCEPT !.prepare = TRUE], [NoFault EXCEPT !.stepAt = 1],
      [NoFault EXCEPT !.trim = TRUE] }

Store(h, m, f) ==
    /\ pc[h] = Idle
    /\ handle[h].alloc
    /\ handle[h].mode = SENSORS_DB_PRODUCER => NextId(seq, rows) <= MaxId
    /\ \E self \in { handle[h] } : \E r \in { sensors_db_store_data(self, m, f) } :
           /\ rows' = r.rows
           /\ seq' = r.seq
           /\ stored' = IF r.ret = 0
                        THEN Append(stored, [id |-> r.id, reading |-> m])
                        ELSE stored
           /\ run' = IF r.ret = 0 THEN NextRun(run, self.data_limit, r.trim) ELSE run
           /\ last' = [ Call("store", h, self.mode, self.data_limit) EXCEPT
                          !.reading = m, !.ret = r.ret, !.err = r.err,
                          !.failed = r.failed,
                          !.prepared = r.prepared, !.finalized = r.finalized ]
           /\ stmts' = [stmts EXCEPT ![self.db] = @ + r.prepared - r.finalized]
    /\ UNCHANGED <<fileExists, hasTable, handle, conns, pc>>

-----------------------------------------------------------------------------
(* sensors_db_read_latest *)

\* The result of sensors_db_read_latest(self, out): the return value and the
\* samples written through out (none, or one).
sensors_db_read_latest(self, f) ==
    IF sqlite3_prepare_v2(hasTable, f.prepare) # SQLITE_OK THEN
        [ ret |-> -1, out |-> << >>,
          failed |-> IF f.prepare THEN "prepare" ELSE "none",
          prepared |-> 0, finalized |-> FinalizeCalls("read_latest", "prepare") ]
    ELSE
        LET q == SelectSql(rows, 1)
            rc == sqlite3_step(q, 1, f.stepAt)
        IN  IF rc # SQLITE_ROW THEN
                [ ret |-> -1, out |-> << >>,
                  failed |-> IF IsError(rc) THEN "step" ELSE "none",
                  prepared |-> 1, finalized |-> FinalizeCalls("read_latest", "no_row") ]
            ELSE
                [ ret |-> sqlite3_finalize(rc), out |-> << ReadColumns(q[1]) >>,
                  failed |-> "none",
                  prepared |-> 1, finalized |-> FinalizeCalls("read_latest", "row") ]

ReadLatestFaults ==
    { NoFault, [NoFault EXCEPT !.prepare = TRUE], [NoFault EXCEPT !.stepAt = 1] }

ReadLatest(h, f) ==
    /\ pc[h] = Idle
    /\ handle[h].alloc
    /\ \E self \in { handle[h] } : \E r \in { sensors_db_read_latest(self, f) } :
           /\ last' = [ Call("read_latest", h, self.mode, self.data_limit) EXCEPT
                          !.ret = r.ret, !.out = r.out, !.failed = r.failed,
                          !.prepared = r.prepared, !.finalized = r.finalized ]
           /\ stmts' = [stmts EXCEPT ![self.db] = @ + r.prepared - r.finalized]
    /\ UNCHANGED <<fileExists, hasTable, rows, seq, handle, conns, stored, run, pc>>

-----------------------------------------------------------------------------
(* sensors_db_read_n *)

\* The while loop of lines 164-177 from the state where count rows have been
\* written: the final count and the result code of the last sqlite3_step.
RECURSIVE read_n_loop(_, _, _, _)
read_n_loop(q, count, max_samples, stepAt) ==
    LET rc == sqlite3_step(q, count + 1, stepAt)
    IN  IF rc # SQLITE_ROW THEN [count |-> count, rc |-> rc]
        ELSE IF count + 1 >= max_samples THEN [count |-> count + 1, rc |-> rc]
        ELSE read_n_loop(q, count + 1, max_samples, stepAt)

\* The result of sensors_db_read_n(self, out_array, max_samples): the return
\* value and the entries written to out_array, in index order.
sensors_db_read_n(self, max_samples, f) ==
    IF sqlite3_prepare_v2(hasTable, f.prepare) # SQLITE_OK THEN
        [ ret |-> -1, out |-> << >>,
          failed |-> IF f.prepare THEN "prepare" ELSE "none",
          prepared |-> 0, finalized |-> FinalizeCalls("read_n", "prepare") ]
    ELSE
        LET q == SelectSql(rows, max_samples)      \* sqlite3_bind_int(stmt, 1, max_samples)
            l == read_n_loop(q, 0, max_samples, f.stepAt)
        IN  [ ret |-> l.count,
              out |-> [i \in 1 .. l.count |-> ReadColumns(q[i])],
              failed |-> IF IsError(l.rc) THEN "step" ELSE "none",
              prepared |-> 1, finalized |-> FinalizeCalls("read_n", "looped") ]

ReadNFaults ==
    { NoFault, [NoFault EXCEPT !.prepare = TRUE] }
        \cup { [NoFault EXCEPT !.stepAt = k] : k \in 1 .. MaxStepFault }

\* Faulty variant: the rows read are taken out of the table
ReadNConsuming(h, max_samples, f) ==
    /\ pc[h] = Idle
    /\ handle[h].alloc
    /\ \E self \in { handle[h] } : \E r \in { sensors_db_read_n(self, max_samples, f) } :
           /\ last' = [ Call("read_n", h, self.mode, self.data_limit) EXCEPT
                          !.max_samples = max_samples,
                          !.ret = r.ret, !.out = r.out, !.failed = r.failed,
                          !.prepared = r.prepared, !.finalized = r.finalized ]
           /\ stmts' = [stmts EXCEPT ![self.db] = @ + r.prepared - r.finalized]
           /\ rows' = { x \in rows : \A i \in DOMAIN r.out : r.out[i].id # x.id }
    /\ UNCHANGED <<fileExists, hasTable, seq, handle, conns, stored, run, pc>>

ReadN(h, max_samples, f) ==
    /\ pc[h] = Idle
    /\ handle[h].alloc
    /\ \E self \in { handle[h] } : \E r \in { sensors_db_read_n(self, max_samples, f) } :
           /\ last' = [ Call("read_n", h, self.mode, self.data_limit) EXCEPT
                          !.max_samples = max_samples,
                          !.ret = r.ret, !.out = r.out, !.failed = r.failed,
                          !.prepared = r.prepared, !.finalized = r.finalized ]
           /\ stmts' = [stmts EXCEPT ![self.db] = @ + r.prepared - r.finalized]
    /\ UNCHANGED <<fileExists, hasTable, rows, seq, handle, conns, stored, run, pc>>

-----------------------------------------------------------------------------
(* The specification: one caller, every operation run to completion *)

Callers == {1}

Next ==
    \/ \E h \in Callers, mode \in Modes, data_limit \in Limits, f \in OpenFaults :
          Open(h, mode, data_limit, f)
    \/ \E h \in Callers : Close(h)
    \/ \E h \in Callers, m \in Readings, f \in StoreFaults : Store(h, m, f)
    \/ \E h \in Callers, f \in ReadLatestFaults : ReadLatest(h, f)
    \/ \E h \in Callers, n \in MaxSamples, f \in ReadNFaults : ReadN(h, n, f)

Spec == Init /\ [][Next]_vars

-----------------------------------------------------------------------------
(* The specification of two processes: a Producer and a Consumer *)

\* Each statement of sensors_db_store_data is a transaction of its own: the
\* INSERT is committed when its step returns, the DELETE of the trim is
\* another statement, and a reader on another connection may run between
\* the two. StoreInsert is the function up to line 107, StoreTrim is lines
\* 109-120.

ProducerSlot == 1
ConsumerSlot == 2

\* Lines 72-107, and the return of line 120 when there is no trim to run.
StoreInsert(h, m, f) ==
    /\ pc[h] = Idle
    /\ handle[h].alloc
    /\ handle[h].mode = SENSORS_DB_PRODUCER => NextId(seq, rows) <= MaxId
    /\ \E self \in { handle[h] } :
       \E r \in { sensors_db_store_data([self EXCEPT !.data_limit = 0], m, f) } :
           /\ rows' = r.rows
           /\ seq' = r.seq
           /\ stmts' = [stmts EXCEPT ![self.db] = @ + r.prepared - r.finalized]
           /\ IF r.ret = 0 /\ self.data_limit > 0
              THEN /\ pc' = [pc EXCEPT ![h] =
                              [ at |-> "trim", id |-> r.id,
                                call |-> [ Call("store", h, self.mode, self.data_limit)
                                             EXCEPT !.reading = m,
                                                    !.prepared = r.prepared,
                                                    !.finalized = r.finalized ] ]]
                   /\ UNCHANGED <<stored, run, last>>
              ELSE /\ stored' = IF r.ret = 0
                                THEN Append(stored, [id |-> r.id, reading |-> m])
                                ELSE stored
                   /\ run' = IF r.ret = 0 THEN NextRun(run, self.data_limit, r.trim)
                                          ELSE run
                   /\ last' = [ Call("store", h, self.mode, self.data_limit) EXCEPT
                                  !.reading = m, !.ret = r.ret, !.err = r.err,
                                  !.failed = r.failed,
                                  !.prepared = r.prepared, !.finalized = r.finalized ]
                   /\ UNCHANGED pc
    /\ UNCHANGED <<fileExists, hasTable, handle, conns>>

\* Lines 109-120.
StoreTrim(h, f) ==
    /\ pc[h] # Idle
    /\ \E self \in { handle[h] } : \E t \in { Trim(rows, self.data_limit, f.trim) } :
           /\ rows' = t.rows
           /\ stored' = Append(stored, [id |-> pc[h].id, reading |-> pc[h].call.reading])
           /\ run' = NextRun(run, self.data_limit, t.trim)
           /\ last' = [ pc[h].call EXCEPT
                          !.ret = 0,
                          !.failed = IF t.trim = "failed" THEN "trim" ELSE "none" ]
    /\ pc' = [pc EXCEPT ![h] = Idle]
    /\ UNCHANGED <<fileExists, hasTable, seq, handle, conns, stmts>>

InsertFaults ==
    { NoFault, [NoFault EXCEPT !.prepare = TRUE], [NoFault EXCEPT !.stepAt = 1] }

TrimFaults == { NoFault, [NoFault EXCEPT !.trim = TRUE] }

PositiveLimits == 1 .. MaxLimit

NextConc ==
    \/ \E data_limit \in PositiveLimits, f \in OpenFaults :
          Open(ProducerSlot, SENSORS_DB_PRODUCER, data_limit, f)
    \/ \E f \in OpenFaults : Open(ConsumerSlot, SENSORS_DB_CONSUMER, 0, f)
    \/ \E h \in Handles : Close(h)
    \/ \E m \in Readings, f \in InsertFaults : StoreInsert(ProducerSlot, m, f)
    \/ \E f \in TrimFaults : StoreTrim(ProducerSlot, f)
    \/ \E f \in ReadLatestFaults : ReadLatest(ConsumerSlot, f)
    \/ \E n \in MaxSamples, f \in ReadNFaults : ReadN(ConsumerSlot, n, f)

SpecConc == Init /\ [][NextConc]_vars

-----------------------------------------------------------------------------
(* The specification of a Consumer on a store file written elsewhere *)

\* The store file is an interface of its own: the column timestamp is
\* declared DATETIME, which gives it no length, and a Consumer opens whatever
\* file it is given. A row of such a file, its timestamp a text of len
\* characters:
ForeignRow(id, len) ==
    [ id |-> id,
      timestamp |-> len,
      bmp280_temperature |-> FloatToDouble(id),
      bmp280_pressure |-> FloatToDouble(id),
      htu21d_temperature |-> FloatToDouble(id),
      htu21d_humidity |-> FloatToDouble(id) ]

TextLens == 0 .. MaxTextLen

\* One row with a timestamp of any length, alone or under a row as
\* sensors_db_store_data writes it.
ForeignTables ==
    { { ForeignRow(1, len) } : len \in TextLens }
        \cup { { ForeignRow(1, len), ForeignRow(2, CurrentTimestamp) } : len \in TextLens }

InitForeign ==
    /\ fileExists = TRUE
    /\ hasTable = TRUE
    /\ rows \in ForeignTables
    /\ seq = Cardinality(rows)
    /\ handle = [h \in Handles |-> NullHandle]
    /\ conns = {}
    /\ stored = << >>
    /\ run = NoRun
    /\ last = NoCall
    /\ pc = [h \in Handles |-> Idle]
    /\ stmts = [h \in Handles |-> 0]

NextForeign ==
    \/ \E h \in Callers, f \in OpenFaults : Open(h, SENSORS_DB_CONSUMER, 0, f)
    \/ \E h \in Callers : Close(h)
    \/ \E h \in Callers, f \in ReadLatestFaults : ReadLatest(h, f)
    \/ \E h \in Callers, n \in MaxSamples, f \in ReadNFaults : ReadN(h, n, f)

SpecForeign == InitForeign /\ [][NextForeign]_vars

-----------------------------------------------------------------------------
(* What the histories say a read should return *)

\* The sample a read returns for the store e of the history.
StoredSample(e) ==
    [ id |-> e.id,
      timestamp |-> [copied |-> TimestampLen, terminated |-> TRUE],
      bmp280_temperature |-> e.reading[1],
      bmp280_pressure |-> e.reading[2],
      htu21d_temperature |-> e.reading[3],
      htu21d_humidity |-> e.reading[4] ]

\* The n most recent stores of the history, most recent first.
MostRecent(n) ==
    [i \in 1 .. Min(n, Len(stored)) |-> StoredSample(stored[Len(stored) - i + 1])]

\* The rows of R with the n greatest ids.
Greatest(R, n) ==
    { r \in R : Cardinality({ x \in R : x.id > r.id }) < n }

StoreOk == last.op = "store" /\ last.ret = 0

-----------------------------------------------------------------------------
(* C1 *)

\* The table a store with data_limit = L > 0 must leave: of the rows held
\* before the call and the inserted one, those with the L greatest ids.
Retained ==
    /\ Cardinality(rows) <= last.data_limit
    /\ \E new \in rows :
          /\ new.id \notin Ids(last.rowsBefore)
          /\ rows = Greatest(last.rowsBefore \cup {new}, last.data_limit)

\* C1, as claimed: after every store that returns 0 on a Producer handle with
\* data_limit = L > 0, the table holds at most L rows, the rows with the L
\* greatest ids.
C1_EveryOkStoreTrims ==
    (StoreOk /\ last.mode = SENSORS_DB_PRODUCER /\ last.data_limit > 0) => Retained

\* C1, amended: the same after every such store whose trim statement executed
\* without error (the result of the trim is ignored, so a store whose DELETE
\* failed returns 0 as well).
C1_OkStoreWithTrimExecutedTrims ==
    (StoreOk /\ last.mode = SENSORS_DB_PRODUCER /\ last.data_limit > 0
        /\ last.failed # "trim") => Retained

\* A store under data_limit = L that found more than L rows and trimmed them.
C1_Witness ==
    /\ StoreOk /\ last.data_limit > 0 /\ last.failed # "trim"
    /\ Cardinality(last.rowsBefore) > last.data_limit
    /\ Cardinality(rows) = last.data_limit

-----------------------------------------------------------------------------
(* C2 *)

\* C2: store on a Consumer handle returns -1 with "DB is read-only" and leaves
\* the table (rows and id sequence) as it was, whatever the table holds and
\* whatever data_limit the handle carries.
C2_ConsumerStoreRefused ==
    (last.op = "store" /\ last.mode = SENSORS_DB_CONSUMER) =>
        /\ last.ret = -1
        /\ last.err = "DB is read-only"
        /\ rows = last.rowsBefore
        /\ seq = last.seqBefore

\* A store on a Consumer handle whose data_limit is below the row count.
C2_Witness ==
    /\ last.op = "store" /\ last.mode = SENSORS_DB_CONSUMER
    /\ last.data_limit > 0
    /\ Cardinality(rows) > last.data_limit

-----------------------------------------------------------------------------
(* C3 *)

\* C3, as claimed: read_n writes at most max_samples entries to out_array (none
\* for max_samples <= 0) and takes no more rows from the statement.
C3_NeverMoreThanMaxSamples ==
    last.op = "read_n" => Len(last.out) <= Max(last.max_samples, 0)

\* Without an engine failure the loop does stop at the buffer's end for every
\* max_samples >= 0; the overrun is that of a negative max_samples.
C3_WithinBufferFromZero ==
    (last.op = "read_n" /\ last.max_samples >= 0) => Len(last.out) <= last.max_samples

-----------------------------------------------------------------------------
(* C4 *)

\* The sample a read returns for the row that carries id.
SampleOfId(id) ==
    StoredSample(stored[CHOOSE i \in DOMAIN stored : stored[i].id = id])

\* out holds the count rows of the table with the greatest ids, most recent
\* first.
LatestRows(out, count) ==
    /\ Len(out) = count
    /\ \A i \in 1 .. count : \A j \in 1 .. count : i < j => out[i].id > out[j].id
    /\ { out[i].id : i \in 1 .. count } = Ids(Greatest(rows, count))
    /\ \A i \in 1 .. count : out[i] = SampleOfId(out[i].id)

\* C4, as claimed: for max_samples >= 0 a read_n that does not return the
\* error -1 returns min(max_samples, total rows) and has written the rows
\* with the greatest ids in strictly descending id order.
C4_ReadNReturnsLatest ==
    (last.op = "read_n" /\ last.max_samples >= 0 /\ last.ret >= 0) =>
        /\ last.ret = Min(last.max_samples, Cardinality(rows))
        /\ LatestRows(last.out, last.ret)

\* What holds instead: the same of every read_n none of whose sqlite3_step
\* calls failed; the order and the ids hold of the rows written in every case.
C4_ReadNWithoutStepFailure ==
    (last.op = "read_n" /\ last.max_samples >= 0 /\ last.ret >= 0) =>
        /\ last.failed = "none" => last.ret = Min(last.max_samples, Cardinality(rows))
        /\ LatestRows(last.out, last.ret)

-----------------------------------------------------------------------------
(* C5 *)

\* C5: the ids assigned by the successful stores are strictly increasing in
\* the order of the stores, across opens, closes and trims, and each is above
\* every id the table held or had ever assigned.
C5_IdsNeverReused ==
    /\ \A i \in DOMAIN stored : \A j \in DOMAIN stored :
          i < j => stored[i].id < stored[j].id
    /\ StoreOk =>
          /\ stored[Len(stored)].id > last.seqBefore
          /\ \A r \in last.rowsBefore : stored[Len(stored)].id > r.id

\* A store that follows the trim of earlier rows.
C5_Witness ==
    /\ StoreOk
    /\ Len(stored) >= 3
    /\ Cardinality(last.rowsBefore) = 1
    /\ Cardinality(rows) = 1

-----------------------------------------------------------------------------
(* C6 *)

\* C6: on a non-empty table read_latest, in either mode, returns 0 unless an
\* engine call fails, and when it returns 0 it has written the one row with
\* the greatest id, which is the sample of the most recent successful store.
C6_ReadLatestReturnsNewest ==
    (last.op = "read_latest" /\ rows # {}) =>
        /\ last.failed = "none" => last.ret = 0
        /\ last.ret = 0 =>
              /\ Len(last.out) = 1
              /\ last.out[1].id = SetMax(Ids(rows))
              /\ last.out[1] = StoredSample(stored[Len(stored)])

\* A read_latest on a Consumer handle after rows have been trimmed.
C6_Witness ==
    /\ last.op = "read_latest" /\ last.ret = 0
    /\ last.mode = SENSORS_DB_CONSUMER
    /\ Len(stored) > Cardinality(rows)
    /\ rows # {}

-----------------------------------------------------------------------------
(* C7 *)

\* C7: open as Consumer where no file exists returns NULL with "Database does
\* not exist", creates no file and leaves no connection open.
C7_ConsumerOpenOfMissingFile ==
    (last.op = "open" /\ last.mode = SENSORS_DB_CONSUMER /\ ~last.fileBefore) =>
        /\ last.ret = 0
        /\ last.err = "Database does not exist"
        /\ ~handle[last.h].alloc
        /\ ~fileExists
        /\ ~hasTable
        /\ conns = last.connsBefore

C7_Witness ==
    last.op = "open" /\ last.mode = SENSORS_DB_CONSUMER /\ ~last.fileBefore

-----------------------------------------------------------------------------
(* C8 *)

\* C8: a Producer open that returns a handle for a path without a file leaves
\* the file with an empty table; a Producer open of a file that holds the
\* table never changes a row or the id sequence, whatever data_limit it
\* passes, and returns a handle unless an engine call fails.
C8_ProducerOpenIdempotent ==
    (last.op = "open" /\ last.mode = SENSORS_DB_PRODUCER) =>
        /\ last.failed = "none" => (last.ret = 1 /\ last.err = "")
        /\ (last.ret = 1 /\ ~last.fileBefore) =>
              (fileExists /\ hasTable /\ rows = {})
        /\ last.tableBefore =>
              (hasTable /\ rows = last.rowsBefore /\ seq = last.seqBefore)

\* A later Producer open, with a data_limit below the number of rows held.
C8_Witness ==
    /\ last.op = "open" /\ last.mode = SENSORS_DB_PRODUCER /\ last.ret = 1
    /\ last.tableBefore
    /\ last.data_limit > 0
    /\ Cardinality(rows) > last.data_limit

\* The first Producer open, which creates the file.
C8_WitnessCreate ==
    /\ last.op = "open" /\ last.mode = SENSORS_DB_PRODUCER /\ last.ret = 1
    /\ ~last.fileBefore /\ fileExists /\ hasTable

-----------------------------------------------------------------------------
(* C9 *)

\* A store under data_limit <= 0 deletes nothing: it adds one row.
C9_UnlimitedStoreKeepsRows ==
    (StoreOk /\ last.data_limit <= 0) =>
        /\ last.rowsBefore \subseteq rows
        /\ Cardinality(rows) = Cardinality(last.rowsBefore) + 1

\* C9, as claimed: after N successful stores, all under data_limit <= 0, the
\* table holds N rows and read_n(N) on such a Producer handle, when it does
\* not return the error -1, returns the N samples in reverse insertion order.
C9_UnlimitedReadNReturnsAll ==
    /\ C9_UnlimitedStoreKeepsRows
    /\ run.kind \in {"empty", "unlimited"} => Cardinality(rows) = Len(stored)
    /\ ( /\ last.op = "read_n" /\ last.ret >= 0
         /\ last.mode = SENSORS_DB_PRODUCER /\ last.data_limit <= 0
         /\ run.kind \in {"empty", "unlimited"}
         /\ last.max_samples = Len(stored) ) =>
            (last.ret = Len(stored) /\ last.out = MostRecent(Len(stored)))

\* What holds instead: the same of every read_n none of whose sqlite3_step
\* calls failed.
C9_UnlimitedReadNWithoutStepFailure ==
    /\ C9_UnlimitedStoreKeepsRows
    /\ run.kind \in {"empty", "unlimited"} => Cardinality(rows) = Len(stored)
    /\ ( /\ last.op = "read_n" /\ last.ret >= 0 /\ last.failed = "none"
         /\ last.mode = SENSORS_DB_PRODUCER /\ last.data_limit <= 0
         /\ run.kind \in {"empty", "unlimited"}
         /\ last.max_samples = Len(stored) ) =>
            (last.ret = Len(stored) /\ last.out = MostRecent(Len(stored)))

-----------------------------------------------------------------------------
(* C10 *)

\* The reads of a Producer handle with data_limit = L > 0 on a store that has
\* seen K > L successful stores, all under L and each with its trim executed.
AfterLimitedRun ==
    /\ last.mode = SENSORS_DB_PRODUCER /\ last.data_limit > 0
    /\ run.kind = "limited" /\ run.data_limit = last.data_limit
    /\ Len(stored) > last.data_limit

\* C10, as claimed (for stores whose trims executed): read_n(n) with n >= L,
\* when it does not return the error -1, returns the L most recently stored
\* samples, most recent first, and read_latest returns the last stored one.
C10_LimitedRunReads ==
    /\ (AfterLimitedRun /\ last.op = "read_n" /\ last.ret >= 0
            /\ last.max_samples >= last.data_limit) =>
          (last.ret = last.data_limit /\ last.out = MostRecent(last.data_limit))
    /\ (AfterLimitedRun /\ last.op = "read_latest" /\ last.ret = 0) =>
          last.out = MostRecent(1)

\* What holds instead: the same of every read_n none of whose sqlite3_step
\* calls failed.
C10_LimitedRunReadsWithoutStepFailure ==
    /\ (AfterLimitedRun /\ last.op = "read_n" /\ last.ret >= 0
            /\ last.failed = "none"
            /\ last.max_samples >= last.data_limit) =>
          (last.ret = last.data_limit /\ last.out = MostRecent(last.data_limit))
    /\ (AfterLimitedRun /\ last.op = "read_latest" /\ last.ret = 0) =>
          last.out = MostRecent(1)

-----------------------------------------------------------------------------
(* C11: a store followed by a read of the latest sample is a round trip *)

\* The four measurements of a sample, in column order.
Measurements(sample) ==
    << sample.bmp280_temperature, sample.bmp280_pressure,
       sample.htu21d_temperature, sample.htu21d_humidity >>

\* C11: right after a store that returned 0, sensors_db_read_latest returns 0
\* with a sample whose four measurements are the four stored, in the same
\* column order, and whose id is fresh: 1 on a table that never held a row,
\* and greater than every id present before the store otherwise. A
\* sensors_db_read_latest that returned 0 carries the measurements and the id
\* of the most recent successful store.
C11_StoreReadLatestRoundTrip ==
    /\ StoreOk =>
          \E r \in { sensors_db_read_latest(handle[last.h], NoFault) } :
              /\ r.ret = 0
              /\ Len(r.out) = 1
              /\ Measurements(r.out[1]) = last.reading
              /\ \A old \in Ids(last.rowsBefore) : r.out[1].id > old
              /\ (last.rowsBefore = {} /\ last.seqBefore = 0) => r.out[1].id = 1
    /\ (last.op = "read_latest" /\ last.ret = 0) =>
          /\ stored # << >>
          /\ Len(last.out) = 1
          /\ Measurements(last.out[1]) = stored[Len(stored)].reading
          /\ last.out[1].id = stored[Len(stored)].id

\* A read of the latest sample after two stores of different readings, the
\* earlier row still present.
C11_Witness ==
    /\ last.op = "read_latest" /\ last.ret = 0
    /\ Len(stored) >= 2
    /\ stored[Len(stored)].reading # stored[Len(stored) - 1].reading
    /\ Measurements(last.out[1]) = stored[Len(stored)].reading
    /\ Cardinality(rows) >= 2

-----------------------------------------------------------------------------
(* C12: the empty table and the failed query, as the caller sees them *)

\* What the caller of sensors_db_read_latest observes: the return value and
\* whether a sample was written through out (the function prints nothing).
Observed(r) == [ret |-> r.ret, written |-> Len(r.out)]

\* C12, as claimed: sensors_db_read_latest on an empty table fails, writes no
\* sample, and what the caller observes differs from what it observes when
\* the statement cannot be prepared.
C12_EmptyTableDistinctFromQueryError ==
    (last.op = "read_latest" /\ last.failed = "none"
        /\ last.tableBefore /\ last.rowsBefore = {}) =>
      /\ last.ret # 0
      /\ last.out = << >>
      /\ Observed(last) #
            Observed(sensors_db_read_latest(handle[last.h],
                                            [NoFault EXCEPT !.prepare = TRUE]))

\* What holds instead: the empty table gives -1 and no sample, as every other
\* failure of sensors_db_read_latest does.
C12_EmptyTableFails ==
    /\ (last.op = "read_latest" /\ last.failed = "none"
            /\ last.tableBefore /\ last.rowsBefore = {}) =>
          (last.ret = -1 /\ last.out = << >>)
    /\ (last.op = "read_latest" /\ last.ret # 0) =>
          (last.ret = -1 /\ last.out = << >>)

-----------------------------------------------------------------------------
(* C13: a failed open leaves nothing behind *)

OpenFailed == last.op = "open" /\ last.ret = 0

\* C13: whenever sensors_db_open returns NULL (the Consumer's file missing,
\* sqlite3_open_v2 failing in either mode, the Producer's CREATE TABLE
\* failing), the caller holds no handle and the open connections are the
\* ones that were open before the call.
C13_FailedOpenReleasesConnection ==
    OpenFailed =>
      /\ ~handle[last.h].alloc
      /\ conns = last.connsBefore
      /\ last.err \in {"Database does not exist", "Cannot open DB", "SQL error"}

\* A Producer open whose connection was opened and whose CREATE TABLE failed.
C13_Witness ==
    /\ OpenFailed
    /\ last.mode = SENSORS_DB_PRODUCER
    /\ last.failed = "exec"
    /\ last.err = "SQL error"
    /\ last.h \notin conns

\* A Consumer open of an existing file whose sqlite3_open_v2 failed.
C13_WitnessConsumer ==
    /\ OpenFailed
    /\ last.mode = SENSORS_DB_CONSUMER
    /\ last.fileBefore
    /\ last.failed = "open"
    /\ last.h \notin conns

-----------------------------------------------------------------------------
(* C14: a store that reports an error has written nothing *)

\* The row that a store of the reading m under the id `id` inserts.
InsertedRow(id, m) == CHOOSE r \in InsertSql({}, id, m) : TRUE

\* C14: sensors_db_store_data returns 0 only when the INSERT was stepped and
\* finalized without error, its row then being in the table; whenever it
\* returns an error (the statement not prepared, or the finalize reporting
\* the failed step), no row was inserted and no trim ran: the table holds
\* exactly the rows it held before, and no id was consumed.
C14_FailedStoreWritesNothing ==
    /\ StoreOk =>
          /\ last.failed \notin {"prepare", "step"}
          /\ InsertedRow(stored[Len(stored)].id, last.reading) \in rows
          /\ stored[Len(stored)].id \notin Ids(last.rowsBefore)
    /\ (last.op = "store" /\ last.ret # 0) =>
          /\ last.ret = -1
          /\ rows = last.rowsBefore
          /\ seq = last.seqBefore

\* A Producer store on a table above its data_limit that failed at the step
\* of the INSERT: a trim would have deleted rows.
C14_Witness ==
    /\ last.op = "store" /\ last.ret = -1
    /\ last.mode = SENSORS_DB_PRODUCER
    /\ last.failed = "step"
    /\ last.data_limit > 0
    /\ Cardinality(last.rowsBefore) > last.data_limit
    /\ rows = last.rowsBefore

\* The same with the statement not prepared.
C14_WitnessPrepare ==
    /\ last.op = "store" /\ last.ret = -1
    /\ last.mode = SENSORS_DB_PRODUCER
    /\ last.failed = "prepare"
    /\ last.rowsBefore # {}

-----------------------------------------------------------------------------
(* C15: a failed trim does not fail the store *)

TrimFailed == last.op = "store" /\ last.failed = "trim"

\* C15: when the INSERT succeeded and the DELETE of the retention trim
\* failed, sensors_db_store_data still returns 0, the inserted row is in the
\* table, and every row present before the call is still there: the table is
\* the one before the call plus the inserted row.
C15_FailedTrimKeepsEveryRow ==
    TrimFailed =>
      /\ last.ret = 0
      /\ InsertedRow(stored[Len(stored)].id, last.reading) \in rows
      /\ last.rowsBefore \subseteq rows
      /\ rows = last.rowsBefore \cup { InsertedRow(stored[Len(stored)].id, last.reading) }

\* A failed trim that had rows to delete: the table is left above data_limit.
C15_Witness ==
    /\ TrimFailed
    /\ last.ret = 0
    /\ last.rowsBefore # {}
    /\ Cardinality(rows) > last.data_limit

-----------------------------------------------------------------------------
(* C16: a row iteration that fails part-way *)

\* A sensors_db_read_n whose sqlite3_step failed after rows had been written.
FailedAfterRows ==
    last.op = "read_n" /\ last.failed = "step" /\ Len(last.out) >= 1

\* C16, as claimed: when the iteration of sensors_db_read_n fails after some
\* rows were produced, the call returns an error and not the count of the
\* rows produced so far.
C16_PartialIterationIsAnError ==
    FailedAfterRows => last.ret < 0

\* What holds instead: the count of the rows written before the failed step
\* is returned, as after a complete iteration.
C16_PartialIterationReturnsCount ==
    FailedAfterRows =>
      /\ last.ret = Len(last.out)
      /\ last.ret < last.max_samples
      /\ last.ret <= Cardinality(rows)
      /\ LatestRows(last.out, last.ret)

-----------------------------------------------------------------------------
(* C17: what a Consumer reads while the Producer stores *)

\* Every successful store so far was made under the data_limit L, and so is
\* the store in progress, if any; the table was empty before the first.
OneProducerUnder(L) ==
    /\ run \in { NoRun, [kind |-> "limited", data_limit |-> L],
                 [kind |-> "untrimmed", data_limit |-> L] }
    /\ pc[ProducerSlot] # Idle => handle[ProducerSlot].data_limit = L

\* The same, every trim so far having executed.
OneTrimmingProducerUnder(L) ==
    /\ run \in { NoRun, [kind |-> "limited", data_limit |-> L] }
    /\ pc[ProducerSlot] # Idle => handle[ProducerSlot].data_limit = L

ConsumerReadN == last.op = "read_n" /\ last.mode = SENSORS_DB_CONSUMER

\* C17, as claimed: with one Producer storing under data_limit L > 0 into a
\* table that started with at most L rows, every sensors_db_read_n of a
\* Consumer in another process, run at any point between the Producer's
\* statements, writes at most L samples.
C17_ConsumerNeverSeesMoreThanLimit ==
    \A L \in PositiveLimits :
        (OneProducerUnder(L) /\ ConsumerReadN) => Len(last.out) <= L

\* What holds instead: at most L + 1 samples as long as every trim executed,
\* the table holding at most L + 1 rows at the read.
C17_ConsumerSeesAtMostOneMore ==
    \A L \in PositiveLimits :
        (OneTrimmingProducerUnder(L) /\ ConsumerReadN) =>
          /\ Cardinality(last.rowsBefore) <= L + 1
          /\ Len(last.out) <= L + 1
          /\ Len(last.out) <= Cardinality(last.rowsBefore)

\* A Consumer's read between the INSERT and the trim of a store on a full
\* table: it returns L + 1 samples.
C17_Witness ==
    /\ ConsumerReadN
    /\ pc[ProducerSlot] # Idle
    /\ OneTrimmingProducerUnder(handle[ProducerSlot].data_limit)
    /\ Len(last.out) = handle[ProducerSlot].data_limit + 1

-----------------------------------------------------------------------------
(* C18: what the reads and the store leave alone *)

\* C18: sensors_db_read_latest and sensors_db_read_n, on a handle of either
\* mode and whatever they return, leave the rows of the table, its id
\* sequence and the file as they were; and after sensors_db_store_data,
\* sensors_db_read_latest or sensors_db_read_n the handle has the mode and
\* the data_limit it had before the call.
C18_ReadsAndStoreFrame ==
    /\ last.op \in {"read_latest", "read_n"} =>
          /\ rows = last.rowsBefore
          /\ seq = last.seqBefore
          /\ hasTable = last.tableBefore
          /\ fileExists = last.fileBefore
          /\ conns = last.connsBefore
    /\ last.op \in {"store", "read_latest", "read_n"} =>
          /\ handle[last.h].alloc
          /\ handle[last.h].mode = last.mode
          /\ handle[last.h].data_limit = last.data_limit

\* A read of several rows through a Producer handle whose data_limit is
\* below the number of rows held.
C18_Witness ==
    /\ last.op = "read_n" /\ last.ret >= 2
    /\ last.mode = SENSORS_DB_PRODUCER
    /\ last.data_limit > 0
    /\ Cardinality(rows) > last.data_limit

\* A read that failed through a Consumer handle on a table with rows.
C18_WitnessFailedRead ==
    /\ last.op \in {"read_latest", "read_n"} /\ last.ret = -1
    /\ last.mode = SENSORS_DB_CONSUMER
    /\ rows # {}

-----------------------------------------------------------------------------
(* C19: the timestamp field of a sample read *)

\* A read that wrote samples.
ReadWroteSamples == last.op \in {"read_latest", "read_n"} /\ last.out # << >>

\* C19, as claimed: whatever the length of the stored timestamp text, the
\* timestamp field of every sample written by sensors_db_read_latest or
\* sensors_db_read_n holds at most 31 characters of it and a terminator
\* inside its 32 bytes.
C19_TimestampTerminated ==
    ReadWroteSamples =>
      \A i \in DOMAIN last.out :
          /\ last.out[i].timestamp.copied <= TimestampSize - 1
          /\ last.out[i].timestamp.terminated

\* The row of the table that the sample came from.
RowOf(sample) == CHOOSE r \in last.rowsBefore : r.id = sample.id

\* What holds instead: a text of up to 31 characters is copied whole and
\* terminated; of a longer text the first 32 characters fill the field and
\* no terminator is written.
C19_TimestampTerminatedUpTo31 ==
    ReadWroteSamples =>
      \A i \in DOMAIN last.out :
          LET len == RowOf(last.out[i]).timestamp
          IN  IF len <= TimestampSize - 1
              THEN last.out[i].timestamp = [copied |-> len, terminated |-> TRUE]
              ELSE last.out[i].timestamp = [copied |-> TimestampSize, terminated |-> FALSE]

\* In a table that only sensors_db_store_data has written every timestamp is
\* the 19 characters of CURRENT_TIMESTAMP, and every field read is terminated.
C19_OwnTimestampsTerminated ==
    /\ \A r \in rows : r.timestamp = TimestampLen
    /\ ReadWroteSamples =>
          \A i \in DOMAIN last.out :
              last.out[i].timestamp = [copied |-> TimestampLen, terminated |-> TRUE]

-----------------------------------------------------------------------------
(* C20: every prepared statement is finalized *)

\* C20: every statement that sensors_db_store_data, sensors_db_read_latest
\* or sensors_db_read_n prepares is finalized exactly once before the
\* function returns, on every return path, so no connection holds a
\* statement between calls and sensors_db_close releases the connection.
C20_StatementsFinalizedOnce ==
    /\ \A c \in Handles : stmts[c] = 0
    /\ last.op \in {"store", "read_latest", "read_n"} =>
          /\ last.prepared \in {0, 1}
          /\ last.finalized = last.prepared
          /\ (last.failed # "prepare" /\ last.tableBefore
                 /\ last.err # "DB is read-only") => last.prepared = 1
    /\ last.op = "close" => last.h \notin conns

\* The early break at max_samples: a read_n that left rows unread.
C20_Witness ==
    /\ last.op = "read_n"
    /\ last.prepared = 1 /\ last.finalized = 1
    /\ last.max_samples >= 1
    /\ last.ret = last.max_samples
    /\ Cardinality(rows) > last.max_samples

\* The return of sensors_db_read_latest on an empty table.
C20_WitnessEmptyTable ==
    /\ last.op = "read_latest" /\ last.ret = -1 /\ last.failed = "none"
    /\ last.tableBefore /\ rows = {}
    /\ last.prepared = 1 /\ last.finalized = 1

\* A failed step of each of the three functions.
C20_WitnessStepFailure ==
    /\ last.op \in {"store", "read_latest", "read_n"}
    /\ last.failed = "step"
    /\ last.prepared = 1 /\ last.finalized = 1

====
